---- MODULE Spec2Model ----
(***************************************************************************)
(* Model of the CMAF track resegmenter                                     *)
(* (python/dash/segment_modifiers/cmaf_track_resegmenter.py).              *)
(*                                                                         *)
(* The input file is a sequence of top-level boxes that is read box by     *)
(* box by the tree walker; SampleMetadataExtraction is the record ip, and  *)
(* Resegmenter.resegment is the pipeline Extract -> Plan -> Generate ->    *)
(* Write.  Byte strings are sequences of pieces: a piece is either a range *)
(* of input bytes copied verbatim or an integer/tag the code encodes.      *)
(***************************************************************************)
EXTENDS Integers, Sequences, FiniteSets, TLC

VARIABLES
    pc,             \* position in Resegmenter.resegment
    data,           \* the input file read so far: its top-level boxes
    file_pos,       \* byte length of data (offset of the next top-level box)
    ip,             \* the SampleMetadataExtraction object (input_parser)
    args,           \* duration_ms and output_file of the Resegmenter
    segment_info,   \* the list returned by _map_samples_to_new_segments
    output,         \* the output buffer built by resegment
    written         \* the content of the output file, NotWritten before open()

vars == <<pc, data, file_pos, ip, args, segment_info, output, written>>

\* ------------------------------------------------------------------ bounds
MaxFragments == 2      \* moof/mdat groups in an input file
MaxRun == 2            \* samples in one trun
MaxDur == 2            \* largest per-sample duration in a trun / sidx entry
MaxPlanSamples == 4    \* samples of a timeline handed directly to the planner
MaxPlanDur == 3        \* largest sample duration of such a timeline

\* Python's None for the numeric attributes
None == -1

\* ------------------------------------------------------------------ bits
\* flags & bit, for bit a power of two
HasBit(flags, bit) == (flags \div bit) % 2 = 1

\* ------------------------------------------------------------------ byte strings
\* data[a:b] of the input file, copied verbatim
Copy(a, b) == [k |-> "copy", a |-> a, b |-> b]
\* structops.uint16_to_str / uint32_to_str / uint64_to_str: big-endian, fixed
\* width (struct.pack; the values of the model stay far below the widths)
uint16_to_str(v) == [k |-> "u16", a |-> v, b |-> 0]
uint32_to_str(v) == [k |-> "u32", a |-> v, b |-> 0]
uint64_to_str(v) == [k |-> "u64", a |-> v, b |-> 0]
\* four literal bytes: a box type such as 'moof', or a fixed 32-bit field
Tag(name) == [k |-> name, a |-> 0, b |-> 0]

PieceLen(p) ==
    CASE p.k = "copy" -> p.b - p.a
      [] p.k = "u16" -> 2
      [] p.k = "u64" -> 8
      [] OTHER -> 4

RECURSIVE ByteLen(_)
ByteLen(s) == IF s = <<>> THEN 0 ELSE PieceLen(Head(s)) + ByteLen(Tail(s))

\* the bytes of one piece: input bytes keep their input position, encoded
\* bytes keep the value and their index within the encoding
PieceBytes(p) ==
    IF p.k = "copy"
    THEN [j \in 1..(p.b - p.a) |-> [k |-> "in", a |-> p.a + j, b |-> 0]]
    ELSE [j \in 1..PieceLen(p) |-> [k |-> p.k, a |-> p.a, b |-> j - 1]]

RECURSIVE Bytes(_)
Bytes(s) == IF s = <<>> THEN <<>> ELSE PieceBytes(Head(s)) \o Bytes(Tail(s))

Min(a, b) == IF a < b THEN a ELSE b

\* Python slice data[a:b] of a buffer of length n: clipped to the buffer
Slice(a, b, n) == Copy(Min(a, n), Min(b, n))

\* ------------------------------------------------------------------ boxes
\* Boxes are records with a type; containers carry children, leaf boxes the
\* fields their handler decodes.  BoxSize is the box's length in bytes.
RECURSIVE BoxSize(_), KidsSize(_)
BoxSize(box) ==
    CASE box.type \in {"moov", "trak", "mdia", "mvex", "moof", "traf"} ->
             8 + KidsSize(box.children)
      [] box.type = "mdhd" -> IF box.version = 1 THEN 44 ELSE 32
      [] box.type = "trex" -> 32
      [] box.type = "mfhd" -> 16
      [] box.type = "tfhd" -> 16 + 4 * Len(box.fields)
      [] box.type = "tfdt" -> IF box.version = 0 THEN 16 ELSE 20
      [] box.type = "trun" ->
             16 + (IF HasBit(box.flags, 1) THEN 4 ELSE 0)
                + (IF HasBit(box.flags, 4) THEN 4 ELSE 0)
                + Len(box.entries) *
                    ( (IF HasBit(box.flags, 256) THEN 4 ELSE 0)
                    + (IF HasBit(box.flags, 512) THEN 4 ELSE 0)
                    + (IF HasBit(box.flags, 1024) THEN 4 ELSE 0)
                    + (IF HasBit(box.flags, 2048) THEN 4 ELSE 0) )
      [] box.type = "sidx" ->
             (IF box.version = 0 THEN 32 ELSE 40) + 12 * Len(box.refs)
      [] OTHER -> box.size
KidsSize(kids) == IF kids = <<>> THEN 0 ELSE BoxSize(Head(kids)) + KidsSize(Tail(kids))

\* ------------------------------------------------------------------ extractor
\* SampleMetadataExtraction.__init__ (raised is the exception propagating out
\* of the walk, "" when none; top_level_boxes is MP4Filter's list)
InitIp ==
    [ track_timescale |-> None,
      default_sample_duration |-> None,
      default_sample_cto |-> None,
      default_sample_flags |-> None,
      default_sample_size |-> None,
      input_segments |-> <<>>,
      samples |-> <<>>,
      last_moof_start |-> 0,
      styp |-> <<>>,
      sidx_start |-> <<>>,
      tfhd |-> <<>>,
      tfdt_size |-> None,
      trun_base_size |-> None,
      trun_sample_flags |-> None,
      base_media_decode_time |-> None,
      first_sample_flags |-> None,
      top_level_boxes |-> <<>>,
      raised |-> "" ]

Raise(p, msg) == [p EXCEPT !.raised = msg]

process_trex(p, box) ==
    [p EXCEPT !.default_sample_duration = box.default_sample_duration,
              !.default_sample_size = box.default_sample_size,
              !.default_sample_flags = box.default_sample_flags]

process_mdhd(p, box) == [p EXCEPT !.track_timescale = box.timescale]

\* the first reference entry of a sidx that is rejected, as the loop meets it
RECURSIVE sidx_refs_error(_)
sidx_refs_error(refs) ==
    IF refs = <<>> THEN ""
    ELSE LET r == Head(refs) IN
         IF r.reference_type # 0 THEN "Only sidx reference type == 0 supported"
         ELSE IF r.starts_with_sap # 1 THEN "Only sidx with starts_with_sap supported"
         ELSE IF r.sap_type # 1 THEN "Only sap type 1 supported"
         ELSE IF r.sap_delta_time # 0 THEN "Only sap_delta_time == 0 supported"
         ELSE sidx_refs_error(Tail(refs))

process_sidx(p, box, file_pos0) ==
    LET pos == (IF box.version = 0 THEN 28 ELSE 36) + 2 IN
    IF box.first_offset # 0 THEN Raise(p, "Only supports first_offset == 0")
    ELSE LET q == [p EXCEPT !.sidx_start = <<Copy(file_pos0, file_pos0 + pos)>>] IN
         Raise(q, sidx_refs_error(box.refs))

process_mfhd(p, box) ==
    [p EXCEPT !.input_segments = Append(@,
        [ sequence_number |-> box.sequence_number,
          moof_start_offset |-> p.last_moof_start,
          base_media_decode_time |-> None,
          duration |-> None ])]

\* str_to_uint32(data[pos:pos+4]) of a tfhd box; None when the slice is short
\* (struct.error)
TfhdWord(box, pos) ==
    IF pos = 8 THEN box.flags
    ELSE IF pos = 12 THEN box.track_id
    ELSE IF (pos - 16) \div 4 + 1 <= Len(box.fields) THEN box.fields[(pos - 16) \div 4 + 1]
    ELSE None

\* one "if flags & bit:" block of process_tfhd; st = [p, pos]
tfhd_field(st, box, flags, bit, attr) ==
    IF st.p.raised # "" \/ ~HasBit(flags, bit) THEN st
    ELSE IF TfhdWord(box, st.pos) = None
         THEN [st EXCEPT !.p = Raise(st.p, "struct.error")]
         ELSE [p |-> IF attr = "" THEN st.p
                     ELSE [st.p EXCEPT ![attr] = TfhdWord(box, st.pos)],
               pos |-> st.pos + 4]

process_tfhd(p, box, file_pos0) ==
    LET flags == TfhdWord(box, 12) % 16777216
        s0 == [p |-> p, pos |-> 12]
        s1 == tfhd_field(s0, box, flags, 1, "")
        s2 == tfhd_field(s1, box, flags, 4, "first_sample_flags")
        s3 == tfhd_field(s2, box, flags, 256, "default_sample_duration")
        s4 == tfhd_field(s3, box, flags, 512, "default_sample_size")
        s5 == tfhd_field(s4, box, flags, 1024, "default_sample_flags")
        s6 == tfhd_field(s5, box, flags, 2048, "default_sample_cto")
    IN  IF s6.p.raised # "" THEN s6.p
        ELSE [s6.p EXCEPT !.tfhd = <<Copy(file_pos0, file_pos0 + BoxSize(box))>>]

process_tfdt(p, box) ==
    IF p.input_segments = <<>> THEN Raise(p, "IndexError")
    ELSE [p EXCEPT !.base_media_decode_time = box.base_media_decode_time,
                   !.input_segments[Len(p.input_segments)].base_media_decode_time =
                        box.base_media_decode_time,
                   !.tfdt_size = BoxSize(box)]

\* the checks of the trun flags with the data-offset check left out
trun_flags_error_no_offset_check(flags) ==
    IF HasBit(flags, 4) THEN "Cannot handle first_sample_flag" ELSE ""

\* the checks of the trun flags: "" or the ValueError raised
trun_flags_error(flags) ==
    IF ~HasBit(flags, 1) THEN "Cannot handle case without data_offset"
    ELSE IF HasBit(flags, 4) THEN "Cannot handle first_sample_flag"
    ELSE ""

\* the accumulator left where it was
next_start_stuck(start, sample_duration) == start

\* start += sample_duration
next_start(start, sample_duration) == start + sample_duration

\* one iteration of the sample loop of process_trun, for entry i;
\* st = [p, start, data_offset].  A None duration or size raises TypeError
\* at the += that follows the append.
trun_sample(st, flags, entries, i) ==
    IF st.p.raised # "" THEN st
    ELSE
      LET p == st.p
          e == entries[i]
          sample_duration == IF HasBit(flags, 256) THEN e.dur ELSE p.default_sample_duration
          sample_size == IF HasBit(flags, 512) THEN e.size ELSE p.default_sample_size
          sample_flags == IF HasBit(flags, 1024) THEN e.flags ELSE p.default_sample_flags
          cto == IF HasBit(flags, 2048) THEN e.cto ELSE p.default_sample_cto
          sample == [start |-> st.start, dur |-> sample_duration, size |-> sample_size,
                     offset |-> st.data_offset, flags |-> sample_flags, cto |-> cto]
          q == [p EXCEPT !.samples = Append(@, sample)]
      IN  IF sample_duration = None \/ sample_size = None
          THEN [st EXCEPT !.p = Raise(q, "TypeError")]
          ELSE [p |-> q,
                start |-> next_start(st.start, sample_duration),
                data_offset |-> st.data_offset + sample_size]

\* the loop over entries lo..hi in order: the range is halved, the first half
\* runs before the second, and an exception in the first half ends the loop
RECURSIVE trun_samples(_, _, _, _, _)
trun_samples(st, flags, entries, lo, hi) ==
    IF lo > hi THEN st
    ELSE IF lo = hi THEN trun_sample(st, flags, entries, lo)
    ELSE LET mid == (lo + hi) \div 2
             half == trun_samples(st, flags, entries, lo, mid)
         IN  IF half.p.raised # "" THEN half
             ELSE trun_samples(half, flags, entries, mid + 1, hi)

process_trun(p, box) ==
    IF p.base_media_decode_time = None THEN Raise(p, "AttributeError")
    ELSE IF trun_flags_error(box.flags) # "" THEN Raise(p, trun_flags_error(box.flags))
    ELSE
      LET q == [p EXCEPT !.trun_base_size = 20, !.trun_sample_flags = box.flags]
          r == trun_samples([p |-> q, start |-> p.base_media_decode_time,
                             data_offset |-> p.last_moof_start + box.data_offset],
                            box.flags, box.entries, 1, Len(box.entries))
      IN  IF r.p.raised # "" THEN r.p
          ELSE [r.p EXCEPT !.input_segments[Len(p.input_segments)].duration =
                                r.start - p.base_media_decode_time]

\* filterbox: dispatch on the dotted path, recursing into the containers
RECURSIVE filterbox(_, _, _, _), filter_children(_, _, _, _, _)
filterbox(p, box, file_pos0, parent) ==
    LET path == IF parent = "" THEN box.type ELSE parent \o "." \o box.type
        \* path == "emsg": the ValueError is constructed and dropped, not raised
        p1 == IF path = "styp"
              THEN [p EXCEPT !.styp = <<Copy(file_pos0, file_pos0 + BoxSize(box))>>]
              ELSE p
    IN  IF path \in {"moov", "moov.trak", "moov.trak.mdia", "moov.mvex", "moof", "moof.traf"}
        THEN LET p2 == IF path = "moof" THEN [p1 EXCEPT !.last_moof_start = file_pos0]
                       ELSE p1
             IN  filter_children(p2, box.children, 1, file_pos0 + 8, path)
        ELSE IF path = "moov.mvex.trex" THEN process_trex(p1, box)
        ELSE IF path = "moov.trak.mdia.mdhd" THEN process_mdhd(p1, box)
        ELSE IF path = "moof.mfhd" THEN process_mfhd(p1, box)
        ELSE IF path = "moof.traf.tfhd" THEN process_tfhd(p1, box, file_pos0)
        ELSE IF path = "moof.traf.tfdt" THEN process_tfdt(p1, box)
        ELSE IF path = "moof.traf.trun" THEN process_trun(p1, box)
        ELSE IF path = "sidx" THEN process_sidx(p1, box, file_pos0)
        ELSE p1
filter_children(p, kids, i, pos, path) ==
    IF i > Len(kids) \/ p.raised # "" THEN p
    ELSE filter_children(filterbox(p, kids[i], pos, path), kids, i + 1,
                         pos + BoxSize(kids[i]), path)

\* one iteration of MP4Filter.filter_top_boxes: the box is recorded in
\* top_level_boxes and handed to filterbox
filter_top_box(p, box, file_pos0) ==
    filterbox([p EXCEPT !.top_level_boxes = Append(@, <<BoxSize(box), box.type>>)],
              box, file_pos0, "")

\* the scan stopping at the moov box as well
RECURSIVE find_header_end_before_moov(_)
find_header_end_before_moov(top_level_boxes) ==
    IF top_level_boxes = <<>> THEN 0
    ELSE IF Head(top_level_boxes)[2] \in {"moov", "sidx", "styp", "moof"} THEN 0
    ELSE Head(top_level_boxes)[1] + find_header_end_before_moov(Tail(top_level_boxes))

\* find_header_end
RECURSIVE find_header_end(_)
find_header_end(top_level_boxes) ==
    IF top_level_boxes = <<>> THEN 0
    ELSE IF Head(top_level_boxes)[2] \in {"sidx", "styp", "moof"} THEN 0
    ELSE Head(top_level_boxes)[1] + find_header_end(Tail(top_level_boxes))

\* bytes_of_trun_sample_data
bytes_of_trun_sample_data(p) ==
      (IF HasBit(p.trun_sample_flags, 256) THEN 4 ELSE 0)
    + (IF HasBit(p.trun_sample_flags, 512) THEN 4 ELSE 0)
    + (IF HasBit(p.trun_sample_flags, 1024) THEN 4 ELSE 0)
    + (IF HasBit(p.trun_sample_flags, 2048) THEN 4 ELSE 0)

\* the b"".join of construct_new_mdat: the slices of samples start_nr..end_nr-1
RECURSIVE sample_data(_, _, _, _)
sample_data(p, i, end_nr, data_len) ==
    IF i >= end_nr THEN <<>>
    ELSE <<Slice(p.samples[i + 1].offset,
                 p.samples[i + 1].offset + p.samples[i + 1].size, data_len)>>
         \o sample_data(p, i + 1, end_nr, data_len)

construct_new_mdat(p, media_info, data_len) ==
    LET combined_data == sample_data(p, media_info.start_nr, media_info.end_nr, data_len)
    IN  <<uint32_to_str(8 + ByteLen(combined_data)), Tag("mdat")>> \o combined_data

\* ------------------------------------------------------------------ planner
\* the comparison with the milliseconds never scaled to the timescale
exceeds_target_unscaled(acc_time, segment_nr, duration_ms, timescale) ==
    acc_time > segment_nr * duration_ms * timescale

\* acc_time * 1000 > segment_nr * self.duration_ms * timescale
exceeds_target(acc_time, segment_nr, duration_ms, timescale) ==
    acc_time * 1000 > segment_nr * duration_ms * timescale

\* samples[i] with Python's indexing: a negative i counts from the end
PySample(samples, i) ==
    IF i < 0 THEN samples[Len(samples) + i + 1] ELSE samples[i + 1]

SegmentInfo(start_nr, end_nr, start_time, dur) ==
    [start_nr |-> start_nr, end_nr |-> end_nr, start_time |-> start_time, dur |-> dur]

\* seg_dur of a segment closed after end_sample
segment_dur(end_sample, start_sample) ==
    (end_sample.start + end_sample.dur) - start_sample.start

\* one iteration of the for loop of _map_samples_to_new_segments, for sample
\* i (0-based); st = [acc_time, start_nr, start_sample, segment_nr, info]
map_sample(st, samples, i, duration_ms, timescale) ==
    LET sample == samples[i + 1]
        acc_time == st.acc_time + sample.dur
    IN  IF exceeds_target(acc_time, st.segment_nr, duration_ms, timescale)
        THEN LET end_sample == PySample(samples, i - 1)
                 info == SegmentInfo(st.start_nr, i, st.start_sample.start,
                                     segment_dur(end_sample, st.start_sample))
             IN  [acc_time |-> acc_time, start_nr |-> i, start_sample |-> sample,
                  segment_nr |-> st.segment_nr + 1, info |-> Append(st.info, info)]
        ELSE [st EXCEPT !.acc_time = acc_time]

\* the loop over samples lo..hi in order: the range is halved and the first
\* half runs (is evaluated, segment_nr being at least 1) before the second
RECURSIVE map_loop(_, _, _, _, _, _)
map_loop(st, samples, lo, hi, duration_ms, timescale) ==
    IF lo > hi THEN st
    ELSE IF lo = hi THEN map_sample(st, samples, lo, duration_ms, timescale)
    ELSE LET mid == (lo + hi) \div 2
             half == map_loop(st, samples, lo, mid, duration_ms, timescale)
         IN  IF half.segment_nr >= 1
             THEN map_loop(half, samples, mid + 1, hi, duration_ms, timescale)
             ELSE half

\* if start_nr != nr_samples - 1: whether the trailing segment is emitted
emit_trailing(start_nr, nr_samples) == start_nr # nr_samples - 1

map_samples_to_new_segments(p, duration_ms) ==
    LET samples == p.samples
        nr_samples == Len(samples)
        r == map_loop([acc_time |-> 0, start_nr |-> 0, start_sample |-> samples[1],
                       segment_nr |-> 1, info |-> <<>>],
                      samples, 0, nr_samples - 1, duration_ms, p.track_timescale)
    IN  IF emit_trailing(r.start_nr, nr_samples)
        THEN Append(r.info,
                    SegmentInfo(r.start_nr, nr_samples, r.start_sample.start,
                                segment_dur(PySample(samples, -1), r.start_sample)))
        ELSE r.info

\* what _map_samples_to_new_segments raises: samples[0] of an empty list, or
\* the product with a timescale that was never set
map_raises(p) ==
    IF p.samples = <<>> THEN "IndexError"
    ELSE IF p.track_timescale = None THEN "TypeError"
    ELSE ""

\* ------------------------------------------------------------------ generator
calculate_traf_size(p, nr_samples) ==
    8 + 16 + p.tfdt_size + p.trun_base_size + nr_samples * bytes_of_trun_sample_data(p)

calculate_moof_size(p, nr_samples) == 8 + 16 + calculate_traf_size(p, nr_samples)

\* sum of sample.size over samples[start_nr:end_nr]
RECURSIVE samples_size(_, _, _)
samples_size(samples, i, end_nr) ==
    IF i >= end_nr THEN 0 ELSE samples[i + 1].size + samples_size(samples, i + 1, end_nr)

segment_size(p, info) ==
    ByteLen(p.styp) + calculate_moof_size(p, info.end_nr - info.start_nr)
        + 8 + samples_size(p.samples, info.start_nr, info.end_nr)

calculate_segment_sizes(p, infos) == [n \in 1..Len(infos) |-> segment_size(p, infos[n])]

\* the segment's start time written in place of its duration
sidx_reference_start_time(info) == info.start_time

\* the duration written into a sidx reference
sidx_reference_duration(info) == info.dur

RECURSIVE sidx_references(_, _, _)
sidx_references(infos, segment_sizes, n) ==
    IF n > Len(infos) \/ n > Len(segment_sizes) THEN <<>>
    ELSE << uint32_to_str(segment_sizes[n]),
            uint32_to_str(sidx_reference_duration(infos[n])),
            Tag("0x90000000") >>
         \o sidx_references(infos, segment_sizes, n + 1)

\* output[4:] of a byte string that starts with a copied range
DropFirst4(s) == <<Copy(Head(s).a + 4, Head(s).b)>> \o Tail(s)

generate_sidx(p, infos, segment_sizes) ==
    LET out == p.sidx_start \o <<uint16_to_str(Len(segment_sizes))>>
                 \o sidx_references(infos, segment_sizes, 1)
    IN  <<uint32_to_str(ByteLen(out))>> \o DropFirst4(out)

RECURSIVE trun_entries(_, _, _, _)
trun_entries(samples, sample_flags, i, end_nr) ==
    IF i >= end_nr THEN <<>>
    ELSE (IF HasBit(sample_flags, 256) THEN <<uint32_to_str(samples[i + 1].dur)>> ELSE <<>>)
      \o (IF HasBit(sample_flags, 512) THEN <<uint32_to_str(samples[i + 1].size)>> ELSE <<>>)
      \o (IF HasBit(sample_flags, 1024) THEN <<uint32_to_str(samples[i + 1].flags)>> ELSE <<>>)
      \o (IF HasBit(sample_flags, 2048) THEN <<uint32_to_str(samples[i + 1].cto)>> ELSE <<>>)
      \o trun_entries(samples, sample_flags, i + 1, end_nr)

generate_trun_box(p, seg_info, moof_size) ==
    LET sample_flags == p.trun_sample_flags
        sample_count == seg_info.end_nr - seg_info.start_nr
        trun_size == 20 + sample_count * bytes_of_trun_sample_data(p)
    IN  << uint32_to_str(trun_size), Tag("trun"), uint32_to_str(sample_flags),
           uint32_to_str(sample_count), uint32_to_str(moof_size + 8) >>
        \o trun_entries(p.samples, sample_flags, seg_info.start_nr, seg_info.end_nr)

generate_moof(p, sequence_nr, seg_info) ==
    LET nr_samples == seg_info.end_nr - seg_info.start_nr
        moof_size == calculate_moof_size(p, nr_samples)
        traf_size == calculate_traf_size(p, nr_samples)
    IN  << uint32_to_str(moof_size), Tag("moof"),
           uint32_to_str(16), Tag("mfhd"), uint32_to_str(0), uint32_to_str(sequence_nr),
           uint32_to_str(traf_size), Tag("traf") >>
        \o p.tfhd
        \o << uint32_to_str(p.tfdt_size), Tag("tfdt") >>
        \o (IF p.tfdt_size = 16
            THEN << uint32_to_str(0), uint32_to_str(seg_info.start_time) >>
            ELSE << uint32_to_str(16777216), uint64_to_str(seg_info.start_time) >>)
        \o generate_trun_box(p, seg_info, moof_size)

\* the per-segment part of resegment: styp (if any), moof, mdat
RECURSIVE generate_segments(_, _, _, _)
generate_segments(p, infos, n, data_len) ==
    IF n > Len(infos) THEN <<>>
    ELSE p.styp \o generate_moof(p, n, infos[n]) \o construct_new_mdat(p, infos[n], data_len)
         \o generate_segments(p, infos, n + 1, data_len)

\* uint32_to_str of a None attribute (struct.error): a per-sample field the
\* captured trun mask asks for that a planned sample never got
generate_raises(p, infos) ==
    IF \E n \in 1..Len(infos) : \E i \in infos[n].start_nr..(infos[n].end_nr - 1) :
           \/ HasBit(p.trun_sample_flags, 1024) /\ p.samples[i + 1].flags = None
           \/ HasBit(p.trun_sample_flags, 2048) /\ p.samples[i + 1].cto = None
    THEN "struct.error" ELSE ""

\* ------------------------------------------------------------------ inputs
TimescaleSet == {1000}
DurationMsSet == {2}
SampleSizeSet == {2}
\* baseMediaDecodeTime of the first fragment, and the gap a later fragment's
\* baseMediaDecodeTime leaves after the end of the fragment before it
FirstDecodeTimeSet == {3}
TfdtGapSet == {0, 1}
\* trun flags: 0x001, 0x301, and the rejected 0x300 (no data offset), 0x305
TrunFlagSet == {1, 769, 768, 773}

FtypBox == [type |-> "ftyp", size |-> 16]
StypBox == [type |-> "styp", size |-> 24]
EmsgBox == [type |-> "emsg", size |-> 20]

MdhdBox(version, timescale) == [type |-> "mdhd", version |-> version, timescale |-> timescale]
TrexBox == [type |-> "trex", default_sample_duration |-> 1, default_sample_size |-> 1,
            default_sample_flags |-> 0]
MoovBox(version, timescale) ==
    [type |-> "moov", children |->
        << [type |-> "trak", children |->
              << [type |-> "mdia", children |-> << MdhdBox(version, timescale) >>] >>],
           [type |-> "mvex", children |-> << TrexBox >>] >>]

SidxRef(duration) ==
    [reference_type |-> 0, size |-> 100, duration |-> duration,
     starts_with_sap |-> 1, sap_type |-> 1, sap_delta_time |-> 0]
SidxBox(version, first_offset, refs) ==
    [type |-> "sidx", version |-> version, first_offset |-> first_offset, refs |-> refs]
ValidSidxSet ==
    { SidxBox(0, 0, [n \in 1..Len(durs) |-> SidxRef(durs[n])]) :
        durs \in UNION { [1..n -> 1..(MaxRun * MaxDur)] : n \in 1..MaxFragments } }
    \cup { SidxBox(1, 0, <<SidxRef(MaxDur)>>) }
RejectedSidxSet ==
    { SidxBox(0, 8, <<SidxRef(1)>>), SidxBox(1, 8, <<SidxRef(1)>>) }
    \cup { SidxBox(0, 0, <<SidxRef(1), r>>) :
             r \in { [SidxRef(1) EXCEPT !.reference_type = 1],
                     [SidxRef(1) EXCEPT !.starts_with_sap = 0],
                     [SidxRef(1) EXCEPT !.sap_type = 2],
                     [SidxRef(1) EXCEPT !.sap_delta_time = 1] } }

\* tfhd boxes as a packager writes them: tf_flags 0x020000 (default-base-is-moof),
\* optionally 0x000008 with a default sample duration; track id 1
TfhdSet ==
    { [type |-> "tfhd", flags |-> 131072, track_id |-> 1, fields |-> <<>>],
      [type |-> "tfhd", flags |-> 131080, track_id |-> 1, fields |-> <<1>>] }

\* the per-sample entries of a trun: a field the flags leave out is not in the box
TrunEntrySet(flags) ==
    [ dur : IF HasBit(flags, 256) THEN 1..MaxDur ELSE {0},
      size : IF HasBit(flags, 512) THEN SampleSizeSet ELSE {0},
      flags : {0},
      cto : {0} ]

TrunBox(flags, data_offset, entries) ==
    [type |-> "trun", flags |-> flags, data_offset |-> data_offset, entries |-> entries]

MoofWith(sequence_number, tfhd, tfdt_version, bmdt, flags, data_offset, entries) ==
    [type |-> "moof", children |->
        << [type |-> "mfhd", sequence_number |-> sequence_number],
           [type |-> "traf", children |->
              << tfhd,
                 [type |-> "tfdt", version |-> tfdt_version, base_media_decode_time |-> bmdt],
                 TrunBox(flags, data_offset, entries) >>] >>]

\* a moof whose trun data offset points 8 bytes into the mdat that follows it
MoofBox(sequence_number, tfhd, tfdt_version, bmdt, flags, entries) ==
    MoofWith(sequence_number, tfhd, tfdt_version, bmdt, flags,
             BoxSize(MoofWith(sequence_number, tfhd, tfdt_version, bmdt, flags, 0, entries)) + 8,
             entries)

\* ------------------------------------------------------------------ state
NotWritten == [exists |-> FALSE, content |-> <<>>]

NrFragments == Cardinality({n \in 1..Len(data) : data[n].type = "moof"})
LastType == IF data = <<>> THEN "" ELSE data[Len(data)].type
SeenTypes == {data[n].type : n \in 1..Len(data)}
\* end of the timeline extracted so far
TimelineEnd ==
    IF ip.samples = <<>> THEN 0
    ELSE ip.samples[Len(ip.samples)].start + ip.samples[Len(ip.samples)].dur
\* bytes of media of the samples of the last fragment
LastFragmentPayload ==
    LET n == Len(data[Len(data)].children[2].children[3].entries)
        m == Len(ip.samples)
    IN  samples_size(ip.samples, m - n, m)

FirstMoof == data[CHOOSE n \in 1..Len(data) :
                      data[n].type = "moof" /\ \A m \in 1..(n - 1) : data[m].type # "moof"]

\* the reference entries of the input sidx, <<>> when the file has none
InputSidxRefs(d) ==
    IF \E n \in 1..Len(d) : d[n].type = "sidx"
    THEN d[CHOOSE n \in 1..Len(d) : d[n].type = "sidx"].refs
    ELSE <<>>

\* the last fragment walked has the duration its sidx reference states
SidxDescribesLast(d, p) ==
    LET k == Len(p.input_segments) IN
    k <= Len(InputSidxRefs(d)) => InputSidxRefs(d)[k].duration = p.input_segments[k].duration

Init ==
    /\ pc = "Init"
    /\ data = <<>>
    /\ file_pos = 0
    /\ ip = InitIp
    /\ args \in [duration_ms : DurationMsSet, output_file : BOOLEAN]
    /\ segment_info = <<>>
    /\ output = <<>>
    /\ written = NotWritten

\* filter_top_boxes meets the next top-level box of the file
Walk(box) ==
    /\ pc = "Init"
    /\ data' = Append(data, box)
    /\ ip' = filter_top_box(ip, box, file_pos)
    /\ file_pos' = file_pos + BoxSize(box)
    /\ pc' = IF ip'.raised # "" THEN "Failed" ELSE "Init"
    /\ UNCHANGED <<args, segment_info, output, written>>

\* The files walked: an optional header (moov alone, or ftyp and moov), an
\* optional sidx, an optional emsg, then up to MaxFragments fragments
\* ([styp] moof mdat), every fragment with a styp or none.
WalkFtyp ==
    /\ data = <<>>
    /\ Walk(FtypBox)

WalkMoov ==
    /\ SeenTypes \subseteq {"ftyp"}
    /\ \E timescale \in TimescaleSet :
         Walk(MoovBox(IF "ftyp" \in SeenTypes THEN 1 ELSE 0, timescale))

WalkSidx ==
    /\ SeenTypes \subseteq {"ftyp", "moov"}
    /\ LastType # "ftyp"
    /\ \E box \in ValidSidxSet \cup RejectedSidxSet : Walk(box)

WalkEmsg ==
    /\ LastType \notin {"ftyp", "emsg", "styp"}
    /\ NrFragments = 0
    /\ Walk(EmsgBox)

WalkStyp ==
    /\ LastType \notin {"ftyp", "styp", "moof"}
    /\ NrFragments < MaxFragments
    /\ NrFragments = 0 \/ "styp" \in SeenTypes
    /\ Walk(StypBox)

\* The fragments of a track share the tfhd, the tfdt version and the trun
\* flags of the first one (a rejected trun, with one sample, may come
\* anywhere), and a fragment that the sidx has a reference for has the
\* duration the reference states.
WalkMoof ==
    /\ LastType \notin {"ftyp", "moof"}
    /\ NrFragments < MaxFragments
    /\ "styp" \in SeenTypes => LastType = "styp"
    /\ \E tfhd \in TfhdSet, tfdt_version \in {0, 1}, first \in FirstDecodeTimeSet,
          gap \in TfdtGapSet, flags \in TrunFlagSet, n \in 1..MaxRun :
         \E entries \in [1..n -> TrunEntrySet(flags)] :
            /\ trun_flags_error(flags) # "" => n = 1 /\ gap = 0
            /\ NrFragments = 0 => gap = 0
            /\ NrFragments > 0 =>
                 /\ tfhd = FirstMoof.children[2].children[1]
                 /\ tfdt_version = FirstMoof.children[2].children[2].version
                 /\ \/ flags = FirstMoof.children[2].children[3].flags
                    \/ trun_flags_error(flags) # ""
            /\ Walk(MoofBox(NrFragments + 1, tfhd, tfdt_version,
                            (IF NrFragments = 0 THEN first ELSE TimelineEnd) + gap,
                            flags, entries))
            /\ ip'.raised = "" => SidxDescribesLast(data', ip')

WalkMdat ==
    /\ LastType = "moof"
    /\ Walk([type |-> "mdat", size |-> 8 + LastFragmentPayload])

\* filter_top_boxes returns: the whole file has been walked
EndOfFile ==
    /\ pc = "Init"
    /\ LastType # "moof"
    /\ pc' = "Extracted"
    /\ UNCHANGED <<data, file_pos, ip, args, segment_info, output, written>>

\* resegment, lines 316-318: the header is copied, the samples are planned
Plan ==
    /\ pc = "Extracted"
    /\ output' = <<Slice(0, find_header_end(ip.top_level_boxes), file_pos)>>
    /\ IF map_raises(ip) # ""
       THEN /\ pc' = "Failed"
            /\ ip' = Raise(ip, map_raises(ip))
            /\ UNCHANGED segment_info
       ELSE /\ pc' = "Planned"
            /\ segment_info' = map_samples_to_new_segments(ip, args.duration_ms)
            /\ UNCHANGED ip
    /\ UNCHANGED <<data, file_pos, args, written>>

\* resegment, lines 319-326: sidx (if the input had one), then the segments
Generate ==
    /\ pc = "Planned"
    /\ IF generate_raises(ip, segment_info) # ""
       THEN /\ pc' = "Failed"
            /\ ip' = Raise(ip, generate_raises(ip, segment_info))
            /\ UNCHANGED output
       ELSE /\ pc' = "Generated"
            /\ output' = output
                 \o (IF ip.sidx_start # <<>>
                     THEN generate_sidx(ip, segment_info,
                                        calculate_segment_sizes(ip, segment_info))
                     ELSE <<>>)
                 \o generate_segments(ip, segment_info, 1, file_pos)
            /\ UNCHANGED ip
    /\ UNCHANGED <<data, file_pos, args, segment_info, written>>

\* resegment, lines 327-329
Write ==
    /\ pc = "Generated"
    /\ pc' = "Done"
    /\ written' = IF args.output_file THEN [exists |-> TRUE, content |-> output]
                  ELSE written
    /\ UNCHANGED <<data, file_pos, ip, args, segment_info, output>>

Next ==
    \/ WalkFtyp
    \/ WalkMoov
    \/ WalkSidx
    \/ WalkEmsg
    \/ WalkStyp
    \/ WalkMoof
    \/ WalkMdat
    \/ EndOfFile
    \/ Plan
    \/ Generate
    \/ Write

Spec == Init /\ [][Next]_vars

\* ------------------------------------------------------------------ planner runs
\* The planner on the timeline extracted from a one-fragment track whose trun
\* carries the given per-sample durations.
PlanTimescaleSet == {500, 1000}
PlanDurationMsSet == {1, 2, 3}
\* the uniform tracks: sample counts around 100, 40 ticks each at timescale
\* 1000, with a target of 2000 ms
UniformNrSet == {99, 100, 101}
UniformTrack == [nr |-> 100, dur |-> 40, timescale |-> 1000, duration_ms |-> 2000]

RECURSIVE WalkAll(_, _, _, _)
WalkAll(p, boxes, i, pos) ==
    IF i > Len(boxes) \/ p.raised # "" THEN p
    ELSE WalkAll(filter_top_box(p, boxes[i], pos), boxes, i + 1, pos + BoxSize(boxes[i]))

TrackFile(timescale, durs) ==
    LET entries == [n \in 1..Len(durs) |-> [dur |-> durs[n], size |-> 1, flags |-> 0, cto |-> 0]]
    IN  << MoovBox(0, timescale),
           MoofBox(1, [type |-> "tfhd", flags |-> 131072, track_id |-> 1, fields |-> <<>>],
                   0, 0, 769, entries),
           [type |-> "mdat", size |-> 8 + Len(durs)] >>

PlanInputs ==
    { [timescale |-> ts, duration_ms |-> ms, durs |-> durs] :
        ts \in PlanTimescaleSet, ms \in PlanDurationMsSet,
        durs \in UNION { [1..n -> 1..MaxPlanDur] : n \in 1..MaxPlanSamples } }
    \cup
    { [timescale |-> UniformTrack.timescale, duration_ms |-> UniformTrack.duration_ms,
       durs |-> [n \in 1..nr |-> UniformTrack.dur]] : nr \in UniformNrSet }

InitPlan ==
    \E in \in PlanInputs :
        /\ pc = "Extracted"
        /\ data = TrackFile(in.timescale, in.durs)
        /\ file_pos = KidsSize(data)
        /\ ip = WalkAll(InitIp, data, 1, 0)
        /\ args = [duration_ms |-> in.duration_ms, output_file |-> FALSE]
        /\ segment_info = <<>>
        /\ output = <<>>
        /\ written = NotWritten

NextPlan == Plan

SpecPlan == InitPlan /\ [][NextPlan]_vars

\* ------------------------------------------------------------------ properties
Abs(x) == IF x < 0 THEN -x ELSE x
CeilDiv(a, b) == (a + b - 1) \div b

\* the planned list covers [0, n) exactly once, in order
IsPartition(infos, n) ==
    /\ infos # <<>>
    /\ infos[1].start_nr = 0
    /\ \A k \in 1..(Len(infos) - 1) : infos[k].end_nr = infos[k + 1].start_nr
    /\ infos[Len(infos)].end_nr = n
    /\ \A i \in 0..(n - 1) :
         Cardinality({k \in 1..Len(infos) : infos[k].start_nr <= i /\ i < infos[k].end_nr}) = 1

\* C1: for any non-empty sample sequence the planned segment list partitions
\* the sample indices [0, totalSamples): it starts at 0, each end_nr is the
\* next start_nr, the last end_nr is the sample count, and every index lies
\* in exactly one segment.
C1_PartitionComplete ==
    pc = "Planned" => IsPartition(segment_info, Len(ip.samples))

\* C9: every segment the planner emits is non-empty (start_nr < end_nr).
C9_SegmentsNonEmpty ==
    pc = "Planned" => \A k \in 1..Len(segment_info) :
                          segment_info[k].start_nr < segment_info[k].end_nr

\* the track of C6: 100 samples of 40 ticks at timescale 1000, target 2000 ms
IsUniformTrack ==
    /\ Len(ip.samples) = UniformTrack.nr
    /\ \A i \in 1..Len(ip.samples) : ip.samples[i].dur = UniformTrack.dur
    /\ ip.track_timescale = UniformTrack.timescale
    /\ args.duration_ms = UniformTrack.duration_ms

\* every planned duration is within one sample duration (40 ticks) of target,
\* and the number of segments is within one of ceil(total / target)
ConvergesTo(target) ==
    /\ \A k \in 1..Len(segment_info) :
         Abs(segment_info[k].dur - target) <= UniformTrack.dur
    /\ Abs(Len(segment_info) - CeilDiv(UniformTrack.nr * UniformTrack.dur, target)) <= 1

\* C6 (as stated): on the uniform track every segment duration is within 40
\* ticks of 4000 ticks and the segment count is ceil(total / target) +-1.
C6_ConvergesTo4000 ==
    pc = "Planned" /\ IsUniformTrack => ConvergesTo(4000)

\* C6 (amended): the target of 2000 ms at timescale 1000 is 2000 ticks; every
\* segment duration is within 40 ticks of 2000 ticks and the segment count is
\* ceil(4000 / 2000) +-1.
C6_ConvergesTo2000 ==
    pc = "Planned" /\ IsUniformTrack =>
        ConvergesTo((args.duration_ms * ip.track_timescale) \div 1000)

C6_Witness ==
    /\ pc = "Planned"
    /\ IsUniformTrack
    /\ Len(segment_info) = 2
    /\ segment_info[1].end_nr = 50
    /\ segment_info[1].dur = 2000

\* ---- reading the output back

\* the pieces of s from index i on that hold the next n bytes
RECURSIVE TakeBytes(_, _, _)
TakeBytes(s, i, n) ==
    IF n <= 0 \/ i > Len(s) THEN <<>>
    ELSE <<s[i]>> \o TakeBytes(s, i + 1, n - PieceLen(s[i]))

\* the payloads of the mdat boxes of a byte string, in order: what follows
\* each 'mdat' tag, as long as the size field before the tag says
RECURSIVE MdatPayloads(_, _)
MdatPayloads(s, i) ==
    IF i > Len(s) THEN <<>>
    ELSE (IF s[i] = Tag("mdat") THEN TakeBytes(s, i + 1, s[i - 1].a - 8) ELSE <<>>)
         \o MdatPayloads(s, i + 1)

\* the media bytes of samples i.. of the input file, in sample order
RECURSIVE MediaBytes(_, _)
MediaBytes(samples, i) ==
    IF i > Len(samples) THEN <<>>
    ELSE PieceBytes(Copy(samples[i].offset, samples[i].offset + samples[i].size))
         \o MediaBytes(samples, i + 1)

\* C2: after resegment the payloads of the output mdat boxes, concatenated
\* in output order, are the media bytes of all extracted samples in sample
\* order: none dropped, none duplicated.
C2_MdatPreserved ==
    pc \in {"Generated", "Done"} =>
        Bytes(MdatPayloads(output, 1)) = MediaBytes(ip.samples, 1)

\* ---- rejected input

\* a sidx or a trun of the file that a handler rejects
RejectedBox(box) ==
    \/ /\ box.type = "sidx"
       /\ \/ box.first_offset # 0
          \/ \E n \in 1..Len(box.refs) :
                \/ box.refs[n].reference_type # 0
                \/ box.refs[n].starts_with_sap # 1
                \/ box.refs[n].sap_type # 1
                \/ box.refs[n].sap_delta_time # 0
    \/ /\ box.type = "moof"
       /\ LET flags == box.children[2].children[3].flags
          IN  ~HasBit(flags, 1) \/ HasBit(flags, 4)

HasRejectedBox == \E n \in 1..Len(data) : RejectedBox(data[n])

\* C3: the output file is written only after extraction, planning and
\* generation have completed without error, and then holds the whole output;
\* when a handler raises (a sidx with a non-zero first offset or a rejected
\* reference, a trun without data offset or with first-sample-flags) the run
\* has failed and no output file exists, not even a partial one.
C3_WrittenOnlyAfterSuccess ==
    /\ written.exists =>
         /\ pc = "Done"
         /\ ip.raised = ""
         /\ written.content = output
    /\ ip.raised # "" => pc = "Failed" /\ written = NotWritten
    /\ HasRejectedBox => ip.raised # "" /\ written = NotWritten

C3_Witness ==
    /\ pc = "Failed"
    /\ args.output_file
    /\ NrFragments = 2
    /\ RejectedBox(data[Len(data)])
    /\ ip.raised = "Cannot handle case without data_offset"
    /\ written = NotWritten

\* C4: when the walker meets a top-level emsg box the run fails and no output
\* is produced: no run over a file with an emsg box completes.
C4_EmsgRejected ==
    "emsg" \in SeenTypes => pc # "Done" /\ written = NotWritten

\* ---- the fragments of the input file
Fragments == SelectSeq(data, LAMBDA box : box.type = "moof")
TfdtOf(moof) == moof.children[2].children[2]
TrunOf(moof) == moof.children[2].children[3]

\* the number of samples in the fragments before fragment k
RECURSIVE FragmentFirst(_)
FragmentFirst(k) ==
    IF k <= 1 THEN 0 ELSE FragmentFirst(k - 1) + Len(TrunOf(Fragments[k - 1]).entries)

\* C5 (as stated): after extraction of a valid input the sample list is
\* contiguous in time, samples[i].start = samples[i-1].start + samples[i-1].dur
\* for every i >= 1, and the first sample starts at the base-media-decode-time
\* of its fragment.
C5_Contiguous ==
    ip.raised = "" /\ ip.samples # <<>> =>
        /\ ip.samples[1].start = TfdtOf(Fragments[1]).base_media_decode_time
        /\ \A i \in 2..Len(ip.samples) :
             ip.samples[i].start = ip.samples[i - 1].start + ip.samples[i - 1].dur

\* C5 (amended): the first sample of every fragment starts at that fragment's
\* base-media-decode-time, and within a fragment each sample starts where the
\* sample before it ends; two fragments are contiguous only when the later
\* one's base-media-decode-time is the end of the earlier one.
C5_ContiguousWithinFragment ==
    ip.raised = "" =>
        /\ Len(ip.samples) = FragmentFirst(Len(Fragments) + 1)
        /\ \A k \in 1..Len(Fragments) :
             LET first == FragmentFirst(k) + 1
                 last == FragmentFirst(k + 1)
             IN  /\ ip.samples[first].start = TfdtOf(Fragments[k]).base_media_decode_time
                 /\ \A i \in (first + 1)..last :
                      ip.samples[i].start = ip.samples[i - 1].start + ip.samples[i - 1].dur
                 /\ k > 1 =>
                      ( ip.samples[first].start
                          = ip.samples[first - 1].start + ip.samples[first - 1].dur
                        <=> TfdtOf(Fragments[k]).base_media_decode_time
                              = TfdtOf(Fragments[k - 1]).base_media_decode_time
                                + ip.input_segments[k - 1].duration )

C5_Witness ==
    /\ pc = "Extracted"
    /\ ip.raised = ""
    /\ Len(Fragments) = 2
    /\ Len(ip.samples) = 4
    /\ ip.samples[2].start = ip.samples[1].start + ip.samples[1].dur
    /\ ip.samples[3].start = TfdtOf(Fragments[2]).base_media_decode_time
    /\ ip.samples[3].start > ip.samples[2].start + ip.samples[2].dur

\* ---- the header
\* the sum of the sizes of the top-level boxes before the first sidx, styp or
\* moof box of the file
RECURSIVE HeaderEnd(_)
HeaderEnd(boxes) ==
    IF boxes = <<>> THEN 0
    ELSE IF Head(boxes).type \in {"sidx", "styp", "moof"} THEN 0
    ELSE BoxSize(Head(boxes)) + HeaderEnd(Tail(boxes))

\* C7: the first headerEnd bytes of the output are the first headerEnd bytes
\* of the input, headerEnd (find_header_end) being the sum of the sizes of
\* the top-level boxes before the first sidx, styp or moof box.
C7_HeaderUnchanged ==
    pc \in {"Planned", "Generated", "Done"} =>
        LET out == Bytes(output) IN
        /\ find_header_end(ip.top_level_boxes) = HeaderEnd(data)
        /\ Len(out) >= HeaderEnd(data)
        /\ \A j \in 1..HeaderEnd(data) : out[j] = [k |-> "in", a |-> j, b |-> 0]
        /\ written.exists => written.content = output

C7_Witness ==
    /\ pc = "Done"
    /\ written.exists
    /\ {"ftyp", "moov", "sidx", "styp"} \subseteq SeenTypes
    /\ HeaderEnd(data) = BoxSize(data[1]) + BoxSize(data[2])
    /\ Len(Bytes(output)) > HeaderEnd(data)

\* ---- the regenerated sidx
\* the reference count is the only 16-bit field of the output
SidxCountAt == CHOOSE i \in 1..Len(output) : output[i].k = "u16"
GeneratedSidxCount == output[SidxCountAt].a
GeneratedSidxDuration(k) == output[SidxCountAt + 3 * (k - 1) + 2].a

\* the input sidx has one reference per fragment, with the fragment's duration
SidxDescribesFragments ==
    /\ InputSidxRefs(data) # <<>>
    /\ Len(InputSidxRefs(data)) = Len(Fragments)
    /\ \A k \in 1..Len(Fragments) :
         InputSidxRefs(data)[k].duration = ip.input_segments[k].duration

\* the planned segments have the sample boundaries of the input fragments
PlanKeepsFragments ==
    /\ Len(segment_info) = Len(Fragments)
    /\ \A k \in 1..Len(Fragments) :
         /\ segment_info[k].start_nr = FragmentFirst(k)
         /\ segment_info[k].end_nr = FragmentFirst(k + 1)

\* C8: when the planned segments have the sample boundaries of the input
\* fragments that the input sidx describes, the generated sidx has the
\* reference count of the input sidx and, reference by reference, its
\* subsegment durations.
C8_SidxIdempotent ==
    pc \in {"Generated", "Done"} /\ SidxDescribesFragments /\ PlanKeepsFragments =>
        /\ \E i \in 1..Len(output) : output[i].k = "u16"
        /\ GeneratedSidxCount = Len(InputSidxRefs(data))
        /\ \A k \in 1..Len(InputSidxRefs(data)) :
             GeneratedSidxDuration(k) = InputSidxRefs(data)[k].duration

C8_Witness ==
    /\ pc = "Done"
    /\ SidxDescribesFragments
    /\ PlanKeepsFragments
    /\ Len(Fragments) = 2
    /\ GeneratedSidxCount = 2
    /\ GeneratedSidxDuration(1) # GeneratedSidxDuration(2)

\* ---- the generated moof boxes
\* the first index from i on where s holds the given tag
NextTag(s, i, name) ==
    CHOOSE j \in i..Len(s) : s[j] = Tag(name) /\ \A m \in i..(j - 1) : s[m] # Tag(name)

\* the bytes from the size field of the moof whose tag is at i up to the
\* size field of the mdat that follows it
EmittedMoofLen(s, i) == ByteLen(SubSeq(s, i - 1, NextTag(s, i, "mdat") - 2))

\* C10: for every generated segment the size written in the moof header is
\* the number of bytes of the emitted moof box, and the trun data offset is
\* that number plus 8 (the distance from the moof start to the first media
\* byte of the mdat that follows).
C10_MoofSizeExact ==
    pc \in {"Generated", "Done"} =>
        \A i \in 1..Len(output) :
            output[i] = Tag("moof") =>
                /\ output[i - 1].a = EmittedMoofLen(output, i)
                /\ output[NextTag(output, i, "trun") + 3].a = EmittedMoofLen(output, i) + 8

\* ------------------------------------------------------------------ defaults cascade runs
\* The walker on a moov followed by up to MaxFragments fragments whose tfhd
\* boxes carry (or not) a default sample duration or size: the 24-bit flag
\* field of the box says which, the optional fields follow the track id.
\* Track id 257 has the bits 0x1 and 0x100 set.
CascadeTfhdSet ==
    { [type |-> "tfhd", flags |-> 0, track_id |-> 1, fields |-> <<>>],
      [type |-> "tfhd", flags |-> 256, track_id |-> 1, fields |-> <<2>>],
      [type |-> "tfhd", flags |-> 512, track_id |-> 1, fields |-> <<3>>],
      [type |-> "tfhd", flags |-> 256, track_id |-> 257, fields |-> <<2>>] }
\* trun flags: nothing per sample (0x001), durations (0x101), sizes (0x201)
CascadeTrunFlagSet == {1, 257, 513}

CascadeMoov ==
    /\ data = <<>>
    /\ \E timescale \in TimescaleSet : Walk(MoovBox(0, timescale))

CascadeMoof ==
    /\ "moov" \in SeenTypes
    /\ LastType # "moof"
    /\ NrFragments < MaxFragments
    /\ \E tfhd \in CascadeTfhdSet, flags \in CascadeTrunFlagSet, n \in 1..MaxRun :
         \E entries \in [1..n -> TrunEntrySet(flags)] :
            Walk(MoofBox(NrFragments + 1, tfhd, 0, TimelineEnd, flags, entries))

NextCascade ==
    \/ CascadeMoov
    \/ CascadeMoof
    \/ WalkMdat

SpecCascade == Init /\ [][NextCascade]_vars

\* ---- the defaults in force
TfhdOf(moof) == moof.children[2].children[1]
\* the trex of the file's moov, and its value for the field a flag bit gates
\* (a trex has no composition-time offset)
TrexOf == data[CHOOSE n \in 1..Len(data) : data[n].type = "moov"].children[2].children[1]
TrexDefault(bit) ==
    IF "moov" \notin SeenTypes THEN None
    ELSE CASE bit = 256 -> TrexOf.default_sample_duration
           [] bit = 512 -> TrexOf.default_sample_size
           [] bit = 1024 -> TrexOf.default_sample_flags
           [] OTHER -> None

\* whether the flag field of a tfhd says the box carries the field of the
\* bit, and the value carried: the optional fields come in the order of
\* their bits
TfhdCarries(box, bit) == HasBit(box.flags, bit)
TfhdCarried(box, bit) ==
    box.fields[1 + Cardinality({b \in {1, 4, 256, 512, 1024, 2048} :
                                    b < bit /\ HasBit(box.flags, b)})]

\* the default for fragment k: the most recent tfhd, of fragment k or an
\* earlier one, that carried the field, else the trex value
RECURSIVE CascadeDefault(_, _)
CascadeDefault(k, bit) ==
    IF k = 0 THEN TrexDefault(bit)
    ELSE IF TfhdCarries(TfhdOf(Fragments[k]), bit)
         THEN TfhdCarried(TfhdOf(Fragments[k]), bit)
         ELSE CascadeDefault(k - 1, bit)

SampleField(sample, bit) ==
    CASE bit = 256 -> sample.dur
      [] bit = 512 -> sample.size
      [] bit = 1024 -> sample.flags
      [] OTHER -> sample.cto

\* C11: a sample field (duration, size, flags, composition-time offset) that
\* its trun does not carry per sample has the value of the most recent tfhd
\* that carried the field, in the sample's fragment or an earlier one, or the
\* trex value when no tfhd carried it.
C11_DefaultsCascade ==
    ip.raised = "" =>
        \A k \in 1..Len(Fragments) :
            \A i \in (FragmentFirst(k) + 1)..FragmentFirst(k + 1) :
                \A bit \in {256, 512, 1024, 2048} :
                    ~HasBit(TrunOf(Fragments[k]).flags, bit) =>
                        SampleField(ip.samples[i], bit) = CascadeDefault(k, bit)

====
